---------------------------- MODULE Spec2Model ----------------------------
(***************************************************************************)
(* Proximity radar demo (App component, its simulation loop, add-contact   *)
(* form and assistant modal) as a state machine.                           *)
(*                                                                         *)
(* Coordinates are integers counting units of 0.00025 degree (half of the  *)
(* 0.0005 degree random-walk magnitude of moveContacts), taken relative to *)
(* MOCK_USER_START_LOCATION.  Distances are integers counting units of     *)
(* 1/UnitsPerKm kilometre, the arc length of one coordinate unit.          *)
(*                                                                         *)
(* Every action is one task of the browser's event loop: a handler, with   *)
(* the React commit that follows it (state update, then the simulation     *)
(* loop effect's cleanup and setup when one of its dependencies changed).  *)
(***************************************************************************)
EXTENDS Integers, Sequences, FiniteSets

VARIABLES
    isTracking,
    userLocation,       \* Coordinates | null
    allContacts,        \* Contact[]
    nearbyContacts,     \* NearbyContact[]
    isAddingContact,
    newContactName,
    newContactPhone,
    selectedContact,    \* NearbyContact | null
    aiResponse,
    isAiLoading,
    intervals,          \* live setInterval timers: the userLocation each closure captured
    hasGeolocation,     \* 'geolocation' in navigator
    geoRequests,        \* getCurrentPosition calls whose callback has not run yet
    aiCalls,            \* assistant-service calls awaited by a handler
    visit               \* what the user spends this visit on: "contacts" or "assistant"

vars == <<isTracking, userLocation, allContacts, nearbyContacts,
          isAddingContact, newContactName, newContactPhone, selectedContact,
          aiResponse, isAiLoading, intervals, hasGeolocation, geoRequests,
          aiCalls, visit>>

trackingVars == <<isTracking, userLocation, intervals, geoRequests>>
contactVars == <<allContacts, nearbyContacts>>
formVars == <<isAddingContact, newContactName, newContactPhone>>
aiVars == <<selectedContact, aiResponse, isAiLoading, aiCalls>>

----------------------------------------------------------------------------
(* Bounds of the model *)

MaxContacts == 2        \* handleAddContact is not taken beyond this many contacts
MaxDrift == 1           \* a contact walks at most this far (|dLat| + |dLon|) from where it started
MaxGeoRequests == 1     \* outstanding getCurrentPosition requests
MaxAiCalls == 2         \* assistant-service calls in flight

----------------------------------------------------------------------------
(* Constants of the program *)

null == [null |-> TRUE]

RADAR_RADIUS_KM == 5

MOCK_USER_START_LOCATION == [latitude |-> 0, longitude |-> 0]

\* (40.7145, -74.0075): 0.0017 degree north and 0.0015 degree west of the mock start
INITIAL_CONTACTS ==
    << [id |-> 1, name |-> <<"Y">>, phoneNumber |-> <<"9">>,
        location |-> [latitude |-> 7, longitude |-> -6],
        isRegistered |-> TRUE] >>

\* half of the 0.0005 degree of (Math.random() - 0.5) * 0.0005, in coordinate units
HalfMagnitude == 1

\* (Math.random() - 0.5) * 0.0005, in coordinate units
Noise == (-HalfMagnitude)..HalfMagnitude

\* positions navigator.geolocation reports: MOCK_USER_START_LOCATION + 0.04675 degree of
\* latitude, which puts contact '1' exactly RADAR_RADIUS_KM away
GeoPositions == { [latitude |-> 187, longitude |-> -6] }

\* MOCK_USER_START_LOCATION + (Math.random() - 0.5) * 0.04, per coordinate
AddPlaces == { [latitude |-> 3, longitude |-> 4], [latitude |-> -80, longitude |-> 80] }

\* what the user can type into a field of the add-contact form
Texts == { << >>, <<" ">>, <<"a">> }

----------------------------------------------------------------------------
(* Pure functions *)

Abs(n) == IF n < 0 THEN -n ELSE n

RECURSIVE Isqrt(_, _)
Isqrt(n, r) == IF (r + 1) * (r + 1) > n THEN r ELSE Isqrt(n, r + 1)

UnitsPerKm == 36

\* distance between two coordinates over a flat grid, truncated to the distance unit
calculateDistanceKm(a, b) ==
    LET dLat == a.latitude - b.latitude
        dLon == a.longitude - b.longitude
        big == IF Abs(dLat) > Abs(dLon) THEN Abs(dLat) ELSE Abs(dLon)
    IN  Isqrt(dLat * dLat + dLon * dLon, big)

\* String.prototype.trim
RECURSIVE trim(_)
trim(s) ==
    IF s = << >> THEN s
    ELSE IF Head(s) = " " THEN trim(Tail(s))
    ELSE IF s[Len(s)] = " " THEN trim(SubSeq(s, 1, Len(s) - 1))
    ELSE s

\* moveContacts without its "only move registered users" test
moveContactAny(c, n) ==
    [c EXCEPT !.location = [latitude |-> c.location.latitude + n[1],
                            longitude |-> c.location.longitude + n[2]]]

\* moveContacts, with the two Math.random() draws of contact i given as noise[i]
moveContact(c, n) ==
    IF ~c.isRegistered THEN c
    ELSE [c EXCEPT !.location = [latitude |-> c.location.latitude + n[1],
                                 longitude |-> c.location.longitude + n[2]]]

moveContacts(contacts, noise) ==
    [i \in DOMAIN contacts |-> moveContact(contacts[i], noise[i])]

withDistance(contact, dist) ==
    [id |-> contact.id, name |-> contact.name, phoneNumber |-> contact.phoneNumber,
     location |-> contact.location, isRegistered |-> contact.isRegistered,
     distanceKm |-> dist]

\* the distance check with dist < RADAR_RADIUS_KM in place of dist <= RADAR_RADIUS_KM
RECURSIVE checkDistancesStrict(_, _, _, _)
checkDistancesStrict(moved, loc, i, nearby) ==
    IF i > Len(moved) THEN nearby
    ELSE LET contact == moved[i]
             dist == calculateDistanceKm(loc, contact.location)
         IN  IF ~contact.isRegistered THEN checkDistancesStrict(moved, loc, i + 1, nearby)
             ELSE IF dist < RADAR_RADIUS_KM * UnitsPerKm
                  THEN checkDistancesStrict(moved, loc, i + 1,
                                            Append(nearby, withDistance(contact, dist)))
                  ELSE checkDistancesStrict(moved, loc, i + 1, nearby)

\* moved.forEach(contact => ...) of the interval callback, from index i on
RECURSIVE checkDistances(_, _, _, _)
checkDistances(moved, loc, i, nearby) ==
    IF i > Len(moved) THEN nearby
    ELSE LET contact == moved[i]
             dist == calculateDistanceKm(loc, contact.location)
         IN  IF ~contact.isRegistered THEN checkDistances(moved, loc, i + 1, nearby)
             ELSE IF dist <= RADAR_RADIUS_KM * UnitsPerKm
                  THEN checkDistances(moved, loc, i + 1, Append(nearby, withDistance(contact, dist)))
                  ELSE checkDistances(moved, loc, i + 1, nearby)

----------------------------------------------------------------------------
(* The simulation loop effect, deps [isTracking, userLocation] *)

\* the effect without its cleanup (no return () => clearInterval(interval))
SimulationLoopNoCleanup(ivs, wasT, wasLoc, isT, loc) ==
    IF wasT = isT /\ wasLoc = loc THEN ivs
    ELSE IF ~isT \/ loc = null THEN ivs ELSE Append(ivs, loc)

\* the effect with deps [isTracking] alone
SimulationLoopTrackingDep(ivs, wasT, wasLoc, isT, loc) ==
    IF wasT = isT THEN ivs
    ELSE LET cleaned == IF wasT /\ wasLoc # null /\ ivs # << >>
                        THEN SubSeq(ivs, 1, Len(ivs) - 1)
                        ELSE ivs
         IN  IF ~isT \/ loc = null THEN cleaned ELSE Append(cleaned, loc)

\* the timers left after the commit that takes the deps from (wasT, wasLoc) to (isT, loc)
SimulationLoop(ivs, wasT, wasLoc, isT, loc) ==
    IF wasT = isT /\ wasLoc = loc THEN ivs
    ELSE LET cleaned == IF wasT /\ wasLoc # null /\ ivs # << >>
                        THEN SubSeq(ivs, 1, Len(ivs) - 1)
                        ELSE ivs
         IN  IF ~isT \/ loc = null THEN cleaned ELSE Append(cleaned, loc)

\* the commit of new values of isTracking and userLocation
Commit(isT, loc) ==
    /\ isTracking' = isT
    /\ userLocation' = loc
    /\ intervals' = SimulationLoop(intervals, isTracking, userLocation, isT, loc)

----------------------------------------------------------------------------
(* What the user can reach on screen *)

ModalOpen == selectedContact # null

\* The main content area and the bottom navigation lie below the modal's overlay.
\* Switching tabs (setActiveTab) changes nothing but which view is shown and is possible
\* whenever the modal is closed, so the view of a tab is in reach exactly then.
CanUse(tab) == ~ModalOpen

Init ==
    /\ isTracking = FALSE
    /\ userLocation = null
    /\ allContacts = INITIAL_CONTACTS
    /\ nearbyContacts = << >>
    /\ isAddingContact = FALSE
    /\ newContactName = << >>
    /\ newContactPhone = << >>
    /\ selectedContact = null
    /\ aiResponse = << >>
    /\ isAiLoading = FALSE
    /\ intervals = << >>
    /\ hasGeolocation \in BOOLEAN
    /\ geoRequests = 0
    /\ aiCalls = << >>
    /\ visit \in {"contacts", "assistant"}

----------------------------------------------------------------------------
(* Location tracking and simulation *)

toggleTracking ==
    /\ CanUse("radar")
    /\ IF isTracking
       THEN /\ Commit(FALSE, null)
            /\ geoRequests' = geoRequests
       ELSE IF hasGeolocation
            THEN /\ geoRequests < MaxGeoRequests
                 /\ geoRequests' = geoRequests + 1
                 /\ Commit(TRUE, userLocation)
            ELSE /\ geoRequests' = geoRequests
                 /\ Commit(TRUE, MOCK_USER_START_LOCATION)
    /\ UNCHANGED <<visit, hasGeolocation, contactVars, formVars, aiVars>>

geoSuccess ==
    /\ geoRequests > 0
    /\ geoRequests' = geoRequests - 1
    /\ \E position \in GeoPositions : Commit(isTracking, position)
    /\ UNCHANGED <<visit, hasGeolocation, contactVars, formVars, aiVars>>

\* the error callback without its setUserLocation(MOCK_USER_START_LOCATION)
geoErrorIgnored ==
    /\ geoRequests > 0
    /\ geoRequests' = geoRequests - 1
    /\ UNCHANGED <<isTracking, userLocation, intervals>>
    /\ UNCHANGED <<visit, hasGeolocation, contactVars, formVars, aiVars>>

geoError ==
    /\ geoRequests > 0
    /\ geoRequests' = geoRequests - 1
    /\ Commit(isTracking, MOCK_USER_START_LOCATION)
    /\ UNCHANGED <<visit, hasGeolocation, contactVars, formVars, aiVars>>

\* where contact c started its walk: INITIAL_CONTACTS, or the place handleAddContact drew
Home(c) ==
    LET places == IF c.id = 1 THEN {INITIAL_CONTACTS[1].location} ELSE AddPlaces
        away(h) == Abs(c.location.latitude - h.latitude)
                     + Abs(c.location.longitude - h.longitude)
    IN  CHOOSE h \in places : \A g \in places : away(h) <= away(g)

\* how far contact c is from where it started
Away(c) ==
    Abs(c.location.latitude - Home(c).latitude)
      + Abs(c.location.longitude - Home(c).longitude)

\* the values of latMove and lonMove for one contact
Draws == Noise \X Noise

\* the draws of one moveContacts(contacts) call, for the contacts from index i on, that
\* leave the contacts no more than budget away from where they started, all told
RECURSIVE NoiseWithin(_, _, _)
NoiseWithin(contacts, i, budget) ==
    IF i > Len(contacts) THEN { << >> }
    ELSE UNION { { <<n>> \o rest :
                     rest \in NoiseWithin(contacts, i + 1,
                                          budget - Away(moveContact(contacts[i], n))) } :
                 n \in { m \in Draws :
                            Away(moveContact(contacts[i], m)) <= budget } }

\* the callback of one live interval
tick ==
    /\ \E k \in DOMAIN intervals :
         \E noise \in NoiseWithin(allContacts, 1, MaxDrift) :
            LET moved == moveContacts(allContacts, noise)
            IN  /\ allContacts' = moved
                /\ nearbyContacts' = checkDistances(moved, intervals[k], 1, << >>)
    /\ UNCHANGED <<visit, hasGeolocation, trackingVars, formVars, aiVars>>

----------------------------------------------------------------------------
(* Navigation and the add-contact form *)

toggleAddForm ==
    /\ visit = "contacts"
    /\ CanUse("list")
    /\ isAddingContact' = ~isAddingContact
    /\ UNCHANGED <<visit, hasGeolocation, trackingVars, contactVars,
                   newContactName, newContactPhone, aiVars>>

setNewContactName ==
    /\ visit = "contacts"
    /\ CanUse("list") /\ isAddingContact
    /\ \E value \in Texts \ {newContactName} : newContactName' = value
    /\ UNCHANGED <<visit, hasGeolocation, trackingVars, contactVars,
                   isAddingContact, newContactPhone, aiVars>>

setNewContactPhone ==
    /\ visit = "contacts"
    /\ CanUse("list") /\ isAddingContact
    /\ \E value \in Texts \ {newContactPhone} : newContactPhone' = value
    /\ UNCHANGED <<visit, hasGeolocation, trackingVars, contactVars,
                   isAddingContact, newContactName, aiVars>>

\* Date.now().toString(): a value no earlier contact carries
NewId(contacts) == Len(contacts) + 1

\* handleAddContact testing the fields as the Save button does, without trim()
handleAddContactNoTrim ==
    IF newContactName = << >> \/ newContactPhone = << >>
    THEN UNCHANGED <<allContacts, formVars>>
    ELSE /\ Len(allContacts) < MaxContacts
         /\ \E place \in AddPlaces :
               allContacts' = Append(allContacts,
                   [id |-> NewId(allContacts), name |-> newContactName,
                    phoneNumber |-> newContactPhone, location |-> place,
                    isRegistered |-> TRUE])
         /\ newContactName' = << >>
         /\ newContactPhone' = << >>
         /\ isAddingContact' = FALSE

\* handleAddContact with setAllContacts([newContact]) in place of
\* setAllContacts(prev => [...prev, newContact])
handleAddContactReplacing ==
    IF trim(newContactName) = << >> \/ trim(newContactPhone) = << >>
    THEN UNCHANGED <<allContacts, formVars>>
    ELSE /\ Len(allContacts) < MaxContacts
         /\ \E place \in AddPlaces :
               allContacts' =
                   << [id |-> NewId(allContacts), name |-> newContactName,
                       phoneNumber |-> newContactPhone, location |-> place,
                       isRegistered |-> TRUE] >>
         /\ newContactName' = << >>
         /\ newContactPhone' = << >>
         /\ isAddingContact' = FALSE

handleAddContact ==
    IF trim(newContactName) = << >> \/ trim(newContactPhone) = << >>
    THEN UNCHANGED <<allContacts, formVars>>
    ELSE /\ Len(allContacts) < MaxContacts
         /\ \E place \in AddPlaces :
               allContacts' = Append(allContacts,
                   [id |-> NewId(allContacts), name |-> newContactName,
                    phoneNumber |-> newContactPhone, location |-> place,
                    isRegistered |-> TRUE])
         /\ newContactName' = << >>
         /\ newContactPhone' = << >>
         /\ isAddingContact' = FALSE

\* disabled={!newContactName || !newContactPhone}
SaveDisabled == newContactName = << >> \/ newContactPhone = << >>

\* the user presses Save Contact; a disabled button dispatches no click
saveContact ==
    /\ visit = "contacts"
    /\ CanUse("list") /\ isAddingContact
    /\ IF SaveDisabled THEN UNCHANGED <<allContacts, formVars>> ELSE handleAddContact
    /\ UNCHANGED <<visit, hasGeolocation, trackingVars, nearbyContacts, aiVars>>

----------------------------------------------------------------------------
(* The assistant modal *)

\* what generateIceBreaker / suggestMeetingPoint resolve to: a text for the contact
\* they were called with, or the empty text when the service failed
Suggestions(call) == { <<call.op, call.contact>>, << >> }

handleAIHelp(contact) ==
    /\ Len(aiCalls) < MaxAiCalls
    /\ selectedContact' = contact
    /\ isAiLoading' = TRUE
    /\ aiResponse' = << >>
    /\ aiCalls' = Append(aiCalls, [op |-> "icebreaker", contact |-> contact.id])

handleAIMeetup ==
    IF selectedContact = null \/ userLocation = null
    THEN UNCHANGED aiVars
    ELSE /\ Len(aiCalls) < MaxAiCalls
         /\ isAiLoading' = TRUE
         /\ aiCalls' = Append(aiCalls, [op |-> "meetup", contact |-> selectedContact.id])
         /\ UNCHANGED <<selectedContact, aiResponse>>

\* nearbyContacts.slice(0, 2)
Slice2(s) == IF Len(s) <= 2 THEN s ELSE SubSeq(s, 1, 2)

\* the AI Suggestions button of a ContactCard under the radar
cardAIHelp ==
    /\ visit = "assistant"
    /\ CanUse("radar") /\ isTracking
    /\ \E i \in DOMAIN Slice2(nearbyContacts) : handleAIHelp(nearbyContacts[i])
    /\ UNCHANGED <<visit, hasGeolocation, trackingVars, contactVars, formVars>>

\* clientWidth and clientHeight of the svg, in pixels (w-full aspect-square max-w-md)
RadarSizes == {220, 400}

\* the padding kept between the outer circle and the svg's edge
RadarPadding == 20

Min(a, b) == IF a < b THEN a ELSE b

maxRadiusPx(width, height) == Min(width, height) \div 2 - RadarPadding

\* Pixel coordinates of one plotted contact.  With t = atan2(dLon, dLat),
\* cos(t - PI/2) = sin(t) = dLon / hyp and sin(t - PI/2) = -cos(t) = -dLat / hyp, where
\* hyp is the length of (dLat, dLon); atan2(0, 0) = 0.  Integer arithmetic: exact where
\* hyp is an integer that divides the products, truncated otherwise.
plotContact(loc, contact, width, height) ==
    LET dLat == contact.location.latitude - loc.latitude
        dLon == contact.location.longitude - loc.longitude
        big == IF Abs(dLat) > Abs(dLon) THEN Abs(dLat) ELSE Abs(dLon)
        hyp == Isqrt(dLat * dLat + dLon * dLon, big)
        distPx == (contact.distanceKm * maxRadiusPx(width, height))
                     \div (RADAR_RADIUS_KM * UnitsPerKm)
    IN  [contact |-> contact,
         x |-> width \div 2 + (IF hyp = 0 THEN 0 ELSE (dLon * distPx) \div hyp),
         y |-> height \div 2 - (IF hyp = 0 THEN distPx ELSE (dLat * distPx) \div hyp)]

\* "4. Plot Contacts" without its "Don't plot outside range" return
RECURSIVE plotContactsAll(_, _, _, _)
plotContactsAll(loc, contacts, width, height) ==
    IF contacts = << >> THEN << >>
    ELSE <<plotContact(loc, Head(contacts), width, height)>>
           \o plotContactsAll(loc, Tail(contacts), width, height)

\* "4. Plot Contacts": the groups appended to the svg by contacts.forEach
RECURSIVE plotContacts(_, _, _, _)
plotContacts(loc, contacts, width, height) ==
    IF contacts = << >> THEN << >>
    ELSE IF Head(contacts).distanceKm > RADAR_RADIUS_KM * UnitsPerKm
         THEN plotContacts(loc, Tail(contacts), width, height)
         ELSE <<plotContact(loc, Head(contacts), width, height)>>
                \o plotContacts(loc, Tail(contacts), width, height)

\* a click on a contact plotted by Radar
radarContactClick ==
    /\ visit = "assistant"
    /\ CanUse("radar") /\ isTracking /\ userLocation # null
    /\ \E width \in RadarSizes, height \in RadarSizes :
         LET plot == plotContacts(userLocation, nearbyContacts, width, height)
         IN  \E p \in DOMAIN plot : handleAIHelp(plot[p].contact)
    /\ UNCHANGED <<visit, hasGeolocation, trackingVars, contactVars, formVars>>

\* the modal's Draft Message button, disabled={isAiLoading}
draftMessage ==
    /\ ModalOpen /\ ~isAiLoading
    /\ handleAIHelp(selectedContact)
    /\ UNCHANGED <<visit, hasGeolocation, trackingVars, contactVars, formVars>>

\* the modal's Suggest Meetup button, disabled={isAiLoading}
suggestMeetup ==
    /\ ModalOpen /\ ~isAiLoading
    /\ handleAIMeetup
    /\ UNCHANGED <<visit, hasGeolocation, trackingVars, contactVars, formVars>>

RemoveAt(s, k) == [i \in 1..(Len(s) - 1) |-> IF i < k THEN s[i] ELSE s[i + 1]]

\* the continuation with an "if (!suggestions) return;" before its two setters
aiResolveSkipEmpty ==
    /\ \E k \in DOMAIN aiCalls :
         /\ \E suggestions \in Suggestions(aiCalls[k]) :
               IF suggestions = << >>
               THEN UNCHANGED <<aiResponse, isAiLoading>>
               ELSE aiResponse' = suggestions /\ isAiLoading' = FALSE
         /\ aiCalls' = RemoveAt(aiCalls, k)
    /\ UNCHANGED <<visit, hasGeolocation, trackingVars, contactVars, formVars,
                   selectedContact>>

\* the continuation of handleAIHelp / handleAIMeetup after its await
aiResolve ==
    /\ \E k \in DOMAIN aiCalls :
         /\ \E suggestions \in Suggestions(aiCalls[k]) : aiResponse' = suggestions
         /\ aiCalls' = RemoveAt(aiCalls, k)
    /\ isAiLoading' = FALSE
    /\ UNCHANGED <<visit, hasGeolocation, trackingVars, contactVars, formVars,
                   selectedContact>>

\* closeModal that ends the scan as well: setUserLocation(null) after its two resets
closeModalAndPosition ==
    /\ ModalOpen
    /\ selectedContact' = null
    /\ aiResponse' = << >>
    /\ Commit(isTracking, null)
    /\ UNCHANGED <<visit, hasGeolocation, geoRequests, contactVars, formVars,
                   isAiLoading, aiCalls>>

closeModal ==
    /\ ModalOpen
    /\ selectedContact' = null
    /\ aiResponse' = << >>
    /\ UNCHANGED <<visit, hasGeolocation, trackingVars, contactVars, formVars,
                   isAiLoading, aiCalls>>

----------------------------------------------------------------------------

Next ==
    \/ toggleTracking
    \/ geoSuccess
    \/ geoError
    \/ tick
    \/ toggleAddForm
    \/ setNewContactName
    \/ setNewContactPhone
    \/ saveContact
    \/ cardAIHelp
    \/ radarContactClick
    \/ draftMessage
    \/ suggestMeetup
    \/ aiResolve
    \/ closeModal

Spec == Init /\ [][Next]_vars

\* Every assistant-service call settles, and the continuation awaiting a settled promise
\* is run by the microtask queue.
SpecLive == Init /\ [][Next]_vars /\ WF_vars(aiResolve)

----------------------------------------------------------------------------
(* The simulation step on its own: moveContacts and the distance check of the interval *)
(* callback, applied to contact lists and user positions drawn from bounded sets        *)

\* where the user is when the step runs: the mock start, the reported position, and the
\* very place of contact '1'
StepPositions == GeoPositions \cup {MOCK_USER_START_LOCATION, INITIAL_CONTACTS[1].location}

\* contact lists of length 0, 1 and 2, participants or not
StepContacts ==
    LET first(r) == [INITIAL_CONTACTS[1] EXCEPT !.isRegistered = r]
        second(r, place) ==
            [id |-> 2, name |-> <<"a">>, phoneNumber |-> <<"a">>, location |-> place,
             isRegistered |-> r]
    IN  { << >> }
          \cup { <<first(r)>> : r \in BOOLEAN }
          \cup { <<first(r[1]), second(r[2], place)>> :
                    r \in BOOLEAN \X BOOLEAN, place \in AddPlaces }

InitStep ==
    /\ isTracking = TRUE
    /\ userLocation \in StepPositions
    /\ intervals = <<userLocation>>
    /\ allContacts \in StepContacts
    /\ nearbyContacts = << >>
    /\ isAddingContact = FALSE
    /\ newContactName = << >>
    /\ newContactPhone = << >>
    /\ selectedContact = null
    /\ aiResponse = << >>
    /\ isAiLoading = FALSE
    /\ hasGeolocation = TRUE
    /\ geoRequests = 0
    /\ aiCalls = << >>
    /\ visit = "contacts"

NextStep == tick

SpecStep == InitStep /\ [][NextStep]_vars

----------------------------------------------------------------------------
(* The radar on its own: Radar given user positions and nearby lists drawn from bounded *)
(* sets, among them entries beyond the radius and entries whose distance was measured   *)
(* against another position                                                             *)

RadarPositions == GeoPositions \cup {MOCK_USER_START_LOCATION}

\* <<dLat, dLon, distanceKm>> of a nearby entry relative to the user: at the user's place,
\* at the user's place with a distance measured earlier, inside, exactly on the radius,
\* beyond it
RadarOffsets ==
    { <<0, 0, 0>>, <<0, 0, 50>>, <<30, 40, 50>>, <<-80, 60, 100>>,
      <<0, 180, 180>>, <<-190, 0, 190>> }

RadarEntry(loc, id, o) ==
    [id |-> id, name |-> <<"a">>, phoneNumber |-> <<"a">>,
     location |-> [latitude |-> loc.latitude + o[1], longitude |-> loc.longitude + o[2]],
     isRegistered |-> TRUE, distanceKm |-> o[3]]

RadarLists(loc) ==
    { << >> }
      \cup { <<RadarEntry(loc, 1, o)>> : o \in RadarOffsets }
      \cup { <<RadarEntry(loc, 1, o[1]), RadarEntry(loc, 2, o[2])>> :
                o \in RadarOffsets \X RadarOffsets }

InitRadar ==
    /\ isTracking = TRUE
    /\ userLocation \in RadarPositions
    /\ intervals = <<userLocation>>
    /\ allContacts = INITIAL_CONTACTS
    /\ nearbyContacts \in RadarLists(userLocation)
    /\ isAddingContact = FALSE
    /\ newContactName = << >>
    /\ newContactPhone = << >>
    /\ selectedContact = null
    /\ aiResponse = << >>
    /\ isAiLoading = FALSE
    /\ hasGeolocation = TRUE
    /\ geoRequests = 0
    /\ aiCalls = << >>
    /\ visit = "assistant"

NextRadar ==
    \/ radarContactClick
    \/ aiResolve
    \/ closeModal

SpecRadar == InitRadar /\ [][NextRadar]_vars

----------------------------------------------------------------------------
(* Properties *)

\* contacts[i] for every i of the shorter list is the same entity, field for field
SameEntities(before, after) ==
    /\ Len(after) >= Len(before)
    /\ \A i \in DOMAIN before : after[i] = before[i]

\* C1: while tracking is stopped no timer step is taken: the nearby set does not change
\* and no entity of the collection changes (the collection can only grow by an add).
C1_IdleUntouchedByTimer ==
    [][~isTracking =>
         /\ ~tick
         /\ nearbyContacts' = nearbyContacts
         /\ SameEntities(allContacts, allContacts')]_vars

\* tracking was stopped after ticks that moved contact '1' and filled the nearby set
C1_Witness ==
    /\ ~isTracking
    /\ nearbyContacts # << >>
    /\ allContacts[1].location # INITIAL_CONTACTS[1].location

\* C2: the user position is present only while tracking is active.
C2_PositionOnlyWhileTracking == userLocation # null => isTracking

\* the entities of the nearby set: participants of the collection, with their place,
\* within the radius of the current user position
NearbyOfCurrent(entry) ==
    /\ userLocation # null
    /\ \E i \in DOMAIN allContacts :
         /\ allContacts[i].id = entry.id
         /\ allContacts[i].isRegistered
         /\ allContacts[i].location = entry.location
         /\ calculateDistanceKm(userLocation, allContacts[i].location)
              <= RADAR_RADIUS_KM * UnitsPerKm
         /\ entry.distanceKm = calculateDistanceKm(userLocation, allContacts[i].location)

\* C3: every entry of the nearby set is a participant of the collection within the
\* radius of the current user position, in every reachable state.
C3_NearbyAlwaysCurrent ==
    \A j \in DOMAIN nearbyContacts : NearbyOfCurrent(nearbyContacts[j])

----------------------------------------------------------------------------
(* The simulation step *)

\* the indices of the participants of contacts within the radius of loc
WithinRadius(contacts, loc) ==
    { i \in DOMAIN contacts :
        /\ contacts[i].isRegistered
        /\ calculateDistanceKm(loc, contacts[i].location) <= RADAR_RADIUS_KM * UnitsPerKm }

\* nearby lists exactly the entities of contacts at the indices of within, in their
\* order, each with its distance to loc
ExactlyNearby(nearby, contacts, loc, within) ==
    /\ Len(nearby) = Cardinality(within)
    /\ \A j \in DOMAIN nearby :
         \E i \in within :
            /\ Cardinality({h \in within : h < i}) = j - 1
            /\ nearby[j] = withDistance(contacts[i],
                                        calculateDistanceKm(loc, contacts[i].location))

\* C4: right after a tick the nearby set is exactly the participants of the updated
\* collection whose distance to the user position is <= RADAR_RADIUS_KM, each with that
\* distance, in the order of the collection.
C4_TickNearbyExact ==
    [][tick => ExactlyNearby(nearbyContacts', allContacts', userLocation,
                             WithinRadius(allContacts', userLocation))]_vars

\* after a step: an entry exactly at the radius, and the collection holds a
\* non-participant that is left out
C4_Witness ==
    /\ \E j \in DOMAIN nearbyContacts :
         nearbyContacts[j].distanceKm = RADAR_RADIUS_KM * UnitsPerKm
    /\ \E i \in DOMAIN allContacts : ~allContacts[i].isRegistered

\* C5: a tick leaves every non-participant as it was, moves every participant by at
\* most half the magnitude in latitude and in longitude, changes no other field, and
\* neither adds, removes nor reorders entities.
C5_TickFrame ==
    [][tick =>
         /\ Len(allContacts') = Len(allContacts)
         /\ \A i \in DOMAIN allContacts :
              LET before == allContacts[i]
                  after == allContacts'[i]
              IN  /\ ~before.isRegistered => after = before
                  /\ [after EXCEPT !.location = before.location] = before
                  /\ Abs(after.location.latitude - before.location.latitude)
                       <= HalfMagnitude
                  /\ Abs(after.location.longitude - before.location.longitude)
                       <= HalfMagnitude]_vars

\* after a step that moved the participant '1' beside a non-participant
C5_Witness ==
    /\ Len(allContacts) = 2
    /\ allContacts[1].isRegistered /\ ~allContacts[2].isRegistered
    /\ allContacts[1].location # INITIAL_CONTACTS[1].location
    /\ nearbyContacts # << >>

----------------------------------------------------------------------------
(* Who writes the entity collection and the user position *)

\* C6 as stated: in a Tracking state that stays one, only the timer tick changes the
\* entity collection or the user position.
C6_TickSoleMutator ==
    [][(isTracking /\ isTracking') =>
         ((allContacts' # allContacts \/ userLocation' # userLocation) => tick)]_vars

\* C6: while tracking, the entity collection is changed by the tick and by an accepted
\* add-contact only, the user position by the geolocation callbacks and by
\* toggleTracking only; the assistant's handlers change neither.
C6_MutatorsWhileTracking ==
    [][isTracking =>
         /\ allContacts' # allContacts => (tick \/ saveContact)
         /\ userLocation' # userLocation => (geoSuccess \/ geoError \/ toggleTracking)]_vars

\* tracking with a position, a contact added, and the contacts walked by ticks
C6_Witness ==
    /\ isTracking
    /\ userLocation # null
    /\ Len(allContacts) > Len(INITIAL_CONTACTS)
    /\ allContacts[1].location # INITIAL_CONTACTS[1].location

----------------------------------------------------------------------------
(* Adding a contact *)

\* C8: Save Contact with an empty or whitespace-only name or phone leaves the
\* collection and the form as they are; otherwise it appends one participant with the
\* typed name and phone and leaves the entities before it unchanged.
C8_AddContact ==
    [][saveContact =>
         IF trim(newContactName) = << >> \/ trim(newContactPhone) = << >>
         THEN UNCHANGED <<allContacts, isAddingContact, newContactName, newContactPhone>>
         ELSE /\ Len(allContacts') = Len(allContacts) + 1
              /\ SameEntities(allContacts, allContacts')
              /\ allContacts'[Len(allContacts')].isRegistered
              /\ allContacts'[Len(allContacts')].name = newContactName
              /\ allContacts'[Len(allContacts')].phoneNumber = newContactPhone]_vars

\* one contact was added, and the open form now holds a whitespace-only name beside a
\* phone, so that the Save button is enabled
C8_Witness ==
    /\ Len(allContacts) = Len(INITIAL_CONTACTS) + 1
    /\ allContacts[Len(allContacts)].isRegistered
    /\ isAddingContact
    /\ ~SaveDisabled
    /\ trim(newContactName) = << >>
    /\ trim(newContactPhone) # << >>

----------------------------------------------------------------------------
(* The assistant *)

\* C9: at most one assistant-service call is in flight at any time.
C9_AtMostOneCall == Len(aiCalls) <= 1

----------------------------------------------------------------------------
(* Geolocation failure *)

\* C10: the error callback, and a start without geolocation, set the user position to
\* MOCK_USER_START_LOCATION and leave the tracking flag as on success; a callback that
\* runs while tracking leaves the app tracking with a position and its timer started.
C10_FallbackOnFailure ==
    [][/\ geoError =>
            (userLocation' = MOCK_USER_START_LOCATION /\ isTracking' = isTracking)
       /\ (toggleTracking /\ ~isTracking /\ ~hasGeolocation) =>
            (isTracking' /\ userLocation' = MOCK_USER_START_LOCATION)
       /\ ((geoSuccess \/ geoError) /\ isTracking) =>
            (isTracking' /\ userLocation' # null /\ intervals' = <<userLocation'>>)]_vars

\* tracking at the fallback position, set by the error callback, with the timer started
C10_Witness ==
    /\ hasGeolocation
    /\ isTracking
    /\ userLocation = MOCK_USER_START_LOCATION
    /\ intervals = <<MOCK_USER_START_LOCATION>>

----------------------------------------------------------------------------
(* No removal path *)

Ids(contacts) == [i \in DOMAIN contacts |-> contacts[i].id]

\* the sequence a is what is left of b after dropping some of b's elements
RECURSIVE IsSubsequence(_, _)
IsSubsequence(a, b) ==
    IF a = << >> THEN TRUE
    ELSE IF b = << >> THEN FALSE
    ELSE IF Head(a) = Head(b) THEN IsSubsequence(Tail(a), Tail(b))
    ELSE IsSubsequence(a, Tail(b))

\* C11: no step deletes an entity: the ids of allContacts before a step are all among
\* the ids after it, in the same relative order, and the length does not decrease.
C11_NeverDeleted ==
    [][/\ IsSubsequence(Ids(allContacts), Ids(allContacts'))
       /\ Len(allContacts') >= Len(allContacts)]_vars

\* tracking was stopped after a contact was added and walked by a tick; both are there
C11_Witness ==
    /\ ~isTracking
    /\ Len(allContacts) > Len(INITIAL_CONTACTS)
    /\ Ids(SubSeq(allContacts, 1, Len(INITIAL_CONTACTS))) = Ids(INITIAL_CONTACTS)
    /\ allContacts[Len(allContacts)].location \notin AddPlaces

----------------------------------------------------------------------------
(* Assistant-service failure *)

----------------------------------------------------------------------------
(* Radar projection *)

WithinRange(contacts) ==
    SelectSeq(contacts, LAMBDA c : c.distanceKm <= RADAR_RADIUS_KM * UnitsPerKm)

\* the plotted point lies at pixel distance (distanceKm / RADAR_RADIUS_KM) * maxRadiusPx
\* from the centre of the svg, and no further than maxRadiusPx
OnDisc(point, width, height) ==
    LET dx == point.x - width \div 2
        dy == point.y - height \div 2
        big == IF Abs(dx) > Abs(dy) THEN Abs(dx) ELSE Abs(dy)
        pixelDistance == Isqrt(dx * dx + dy * dy, big)
    IN  /\ pixelDistance * pixelDistance = dx * dx + dy * dy
        /\ pixelDistance * (RADAR_RADIUS_KM * UnitsPerKm)
             = point.contact.distanceKm * maxRadiusPx(width, height)
        /\ pixelDistance <= maxRadiusPx(width, height)

\* C13: with a user position, the radar plots exactly the nearby entries whose
\* precomputed distance is <= RADAR_RADIUS_KM, in order, each at pixel distance
\* (distanceKm / RADAR_RADIUS_KM) * maxRadiusPx from the centre and never beyond
\* maxRadiusPx, for every size of the svg; a click on the radar selects a plotted entry.
C13_RadarProjection ==
    /\ [](userLocation # null =>
            \A width \in RadarSizes, height \in RadarSizes :
               LET plot == plotContacts(userLocation, nearbyContacts, width, height)
               IN  /\ [p \in DOMAIN plot |-> plot[p].contact] = WithinRange(nearbyContacts)
                   /\ \A p \in DOMAIN plot : OnDisc(plot[p], width, height))
    /\ [][radarContactClick =>
             selectedContact'.distanceKm <= RADAR_RADIUS_KM * UnitsPerKm]_vars

\* the entry exactly on the radius was clicked on the radar, beside one beyond the radius
C13_Witness ==
    /\ selectedContact # null
    /\ selectedContact.distanceKm = RADAR_RADIUS_KM * UnitsPerKm
    /\ \E i \in DOMAIN nearbyContacts :
          nearbyContacts[i].distanceKm > RADAR_RADIUS_KM * UnitsPerKm

----------------------------------------------------------------------------
(* The periodic timer *)

\* C14: at most one interval is live, and one is live exactly when isTracking is true
\* and userLocation is non-null.
C14_OneTimerWhenTracking ==
    /\ Len(intervals) <= 1
    /\ (intervals # << >>) <=> (isTracking /\ userLocation # null)

\* tracking again at the fallback position, one interval live, with a nearby entry that
\* a tick of the earlier scan measured from the reported position
C14_Witness ==
    /\ isTracking
    /\ userLocation = MOCK_USER_START_LOCATION
    /\ Len(intervals) = 1
    /\ nearbyContacts # << >>
    /\ \E position \in GeoPositions :
          nearbyContacts[1].distanceKm
            = calculateDistanceKm(position, nearbyContacts[1].location)
    /\ nearbyContacts[1].distanceKm
          # calculateDistanceKm(userLocation, nearbyContacts[1].location)

----------------------------------------------------------------------------
(* Responses of earlier calls *)

\* a call of the assistant service for the selected contact is awaited
PendingForSelected ==
    \E k \in DOMAIN aiCalls : aiCalls[k].contact = selectedContact.id

\* C15: while the modal is open, a response it shows is one for the selected contact,
\* and isAiLoading is true exactly while a call for the selected contact is pending.
C15_ResponseOfSelected ==
    ModalOpen =>
        /\ aiResponse # << >> => aiResponse[2] = selectedContact.id
        /\ isAiLoading <=> PendingForSelected

=============================================================================
